---- MODULE Spec2Model ----
(***************************************************************************)
(* Model of yankeguo/replicate-assets:                                     *)
(*   src/replicate-container-image.py  (image pipeline)                    *)
(*   src/replicate-claude-code.py      (installer pipeline)                *)
(*                                                                         *)
(* A Python str is modelled as a sequence of one-character strings, so     *)
(* that split / rsplit / replace / strip / startswith are computed the way *)
(* the interpreter computes them.                                          *)
(***************************************************************************)
EXTENDS Naturals, Sequences, FiniteSets

VARIABLES
    \* ---- replicate-container-image.py: module globals and main() ----
    REGISTRY_USERNAME,  \* os.getenv("REGISTRY_USERNAME"); <<>> when unset/empty
    REGISTRY_PASSWORD,  \* os.getenv("REGISTRY_PASSWORD"); <<>> when unset/empty
    REGISTRY_BASE_URL,  \* os.getenv("REGISTRY_BASE_URL", "").rstrip("/")
    argv,               \* sys.argv[1:]
    ipc,                \* position of main() of the image pipeline
    argi,               \* index of the argument the "Parse arguments" loop is at
    images,             \* the list `images` of main()
    idx,                \* index of the image the "Replicate each image" loop is at
    cmds,               \* every subprocess.run so far: [cmd, a, b, rc]
    logged,             \* the images logger.error reported as failed
    exc,                \* the exception main() ended with, "none" otherwise
    \* ---- parse_image / build_target_image applied to given references ----
    source_image,       \* the reference given to replicate_image
    other_image,        \* a second reference of the same batch
    parsed,             \* parse_image(source_image)
    target_image,       \* build_target_image(*parse_image(source_image))
    other_target,       \* build_target_image(*parse_image(other_image))
    \* ---- str.replace as used on install.sh / install.ps1 ----
    text,               \* the artifact text
    origin,             \* src_base_url
    destination,        \* dst_base_url
    rewritten,          \* text.replace(origin, destination), with provenance
    \* ---- replicate-claude-code.py: module globals, main() and
    \*      simple_download_and_upload ----
    COS_BUCKET,         \* os.getenv("COS_BUCKET"); <<>> when unset/empty
    COS_SECRET_ID,      \* os.getenv("COS_SECRET_ID")
    COS_SECRET_KEY,     \* os.getenv("COS_SECRET_KEY")
    COS_PUBLIC_URL,     \* os.getenv("COS_PUBLIC_URL", "").rstrip("/")
    COS_PATH_PREFIX,    \* os.getenv("COS_PATH_PREFIX", "cc").lstrip("/").rstrip("/")
    pc,                 \* position of main() of the installer pipeline
    install_sh,         \* text of install.sh
    src_base_url,       \* extract_src_base_url(install_sh)
    install_ps1,        \* text of install.ps1
    version,            \* version_text.strip()
    platforms,          \* list(manifest_json["platforms"].keys())
    pidx,               \* index of the platform the binary loop is at
    ops,                \* every HTTP GET and every upload attempted, in order
    published,          \* the objects stored so far: [key, body]
    transfers,          \* the simple_download_and_upload calls that returned
    failedAt,           \* Len(ops) when main ended with an exception, else 0
    iexc,               \* the exception main() ended with, "none" otherwise
    dlpc,               \* position inside simple_download_and_upload
    tmpFiles,           \* the temporary files that exist
    tmpCount,           \* how many temporary files were created
    chunks,             \* chunks the response has yet to deliver
    pending             \* the exception in flight inside the try block

imageVars == <<REGISTRY_USERNAME, REGISTRY_PASSWORD, argv, ipc, argi, images,
               idx, cmds, logged, exc>>
locatorVars == <<source_image, other_image, parsed, target_image, other_target>>
rewriteVars == <<text, origin, destination, rewritten>>

installerVars == <<COS_BUCKET, COS_SECRET_ID, COS_SECRET_KEY, COS_PUBLIC_URL,
                   COS_PATH_PREFIX, pc, install_sh, src_base_url, install_ps1,
                   version, platforms, pidx, ops, published, transfers, failedAt,
                   iexc, dlpc, tmpFiles, tmpCount, chunks, pending>>

vars == <<imageVars, REGISTRY_BASE_URL, locatorVars, rewriteVars, installerVars>>

\* "Not computed yet" for a result variable, and "not part of this run" for pc.
Unset == <<"unset">>

\* The same for `rewritten`, whose elements are records
UnsetMarked == <<[c |-> "unset", ins |-> FALSE]>>

(***************************************************************************)
(* The variables of the parts of the repository a specification leaves out *)
(***************************************************************************)

LocatorIdle ==
    /\ source_image = Unset /\ other_image = Unset /\ parsed = Unset
    /\ target_image = Unset /\ other_target = Unset

RewriteIdle ==
    /\ text = Unset /\ origin = Unset /\ destination = Unset
    /\ rewritten = UnsetMarked

ImageIdle ==
    /\ REGISTRY_USERNAME = Unset /\ REGISTRY_PASSWORD = Unset
    /\ argv = <<>> /\ ipc = "unset" /\ argi = 0 /\ images = <<>> /\ idx = 0
    /\ cmds = <<>> /\ logged = <<>> /\ exc = "none"

InstallerIdle ==
    /\ COS_BUCKET = Unset /\ COS_SECRET_ID = Unset /\ COS_SECRET_KEY = Unset
    /\ COS_PUBLIC_URL = Unset /\ COS_PATH_PREFIX = Unset
    /\ pc = "unset" /\ install_sh = Unset /\ src_base_url = Unset
    /\ install_ps1 = Unset /\ version = Unset /\ platforms = <<>> /\ pidx = 0
    /\ ops = <<>> /\ published = <<>> /\ transfers = <<>> /\ failedAt = 0
    /\ iexc = "none" /\ dlpc = "idle" /\ tmpFiles = {} /\ tmpCount = 0
    /\ chunks = 0 /\ pending = "none"

(***************************************************************************)
(* Python string primitives                                                *)
(***************************************************************************)

\* c in s, for a one-character c
HasChar(s, c) == \E i \in DOMAIN s : s[i] = c

\* s.startswith(p)
StartsWith(s, p) == Len(s) >= Len(p) /\ SubSeq(s, 1, Len(p)) = p

\* sub in s
IsSubstring(sub, s) ==
    \E i \in 1..(Len(s) + 1) :
        i + Len(sub) - 1 <= Len(s) /\ SubSeq(s, i, i + Len(sub) - 1) = sub

\* s.find(c) + 1 : the first position of c in s, 0 when absent
FirstIndex(s, c) ==
    IF HasChar(s, c)
    THEN CHOOSE i \in DOMAIN s : s[i] = c /\ \A j \in 1..(i - 1) : s[j] # c
    ELSE 0

\* s.rfind(c) + 1 : the last position of c in s, 0 when absent
LastIndex(s, c) ==
    IF HasChar(s, c)
    THEN CHOOSE i \in DOMAIN s : s[i] = c /\ \A j \in (i + 1)..Len(s) : s[j] # c
    ELSE 0

\* s.split(c) : always at least one part; empty parts are kept
RECURSIVE Split(_, _)
Split(s, c) ==
    LET k == FirstIndex(s, c)
    IN  IF k = 0
        THEN <<s>>
        ELSE <<SubSeq(s, 1, k - 1)>> \o Split(SubSeq(s, k + 1, Len(s)), c)

\* c.join(parts)
RECURSIVE Join(_, _)
Join(parts, c) ==
    IF Len(parts) = 0 THEN <<>>
    ELSE IF Len(parts) = 1 THEN parts[1]
    ELSE parts[1] \o <<c>> \o Join(Tail(parts), c)

\* s.replace(a, b) for one-character a and b
ReplaceChar(s, a, b) == [i \in DOMAIN s |-> IF s[i] = a THEN b ELSE s[i]]

\* s.rstrip(c) for a one-character c
RECURSIVE RStripChar(_, _)
RStripChar(s, c) ==
    IF Len(s) > 0 /\ s[Len(s)] = c
    THEN RStripChar(SubSeq(s, 1, Len(s) - 1), c)
    ELSE s

\* s.lstrip(c) for a one-character c
RECURSIVE LStripChar(_, _)
LStripChar(s, c) ==
    IF Len(s) > 0 /\ s[1] = c THEN LStripChar(Tail(s), c) ELSE s

\* The whitespace str.strip() removes and the regex class \s matches
Whitespace == {" ", "\n", "\r", "\t"}

\* s.strip()
RECURSIVE Strip(_)
Strip(s) ==
    IF Len(s) > 0 /\ s[1] \in Whitespace THEN Strip(Tail(s))
    ELSE IF Len(s) > 0 /\ s[Len(s)] \in Whitespace
         THEN Strip(SubSeq(s, 1, Len(s) - 1))
         ELSE s

(***************************************************************************)
(* String literals of replicate-container-image.py                         *)
(***************************************************************************)

DockerIo == <<"d", "o", "c", "k", "e", "r", ".", "i", "o">>
Localhost == <<"l", "o", "c", "a", "l", "h", "o", "s", "t">>
Library == <<"l", "i", "b", "r", "a", "r", "y">>
Latest == <<"l", "a", "t", "e", "s", "t">>
HttpsScheme == <<"h", "t", "t", "p", "s", ":", "/", "/">>

(***************************************************************************)
(* parse_image                                                             *)
(***************************************************************************)

\* image.rsplit(":", 1)[0] when ":" in image, else image
ImagePart(image) ==
    IF HasChar(image, ":")
    THEN SubSeq(image, 1, LastIndex(image, ":") - 1)
    ELSE image

\* image.rsplit(":", 1)[1] when ":" in image, else "latest"
TagPart(image) ==
    IF HasChar(image, ":")
    THEN SubSeq(image, LastIndex(image, ":") + 1, Len(image))
    ELSE Latest

\* len(parts) >= 2 and ("." in parts[0] or parts[0] == "localhost")
DetectRegistry_AnyFirstSegment(parts) == Len(parts) >= 2

DetectRegistry(parts) ==
    Len(parts) >= 2 /\ (HasChar(parts[1], ".") \/ parts[1] = Localhost)

\* if registry == "docker.io" and "/" not in path: path = f"library/{path}"
AddLibrary(registry, path) ==
    IF registry = DockerIo /\ ~HasChar(path, "/")
    THEN Library \o <<"/">> \o path
    ELSE path

parse_image(image) ==
    LET image_part == ImagePart(image)
        tag == TagPart(image)
        parts == Split(image_part, "/")
        registry == IF DetectRegistry(parts) THEN parts[1] ELSE DockerIo
        path0 == IF DetectRegistry(parts) THEN Join(Tail(parts), "/")
                 ELSE image_part
    IN  <<registry, AddLibrary(registry, path0), tag>>

(***************************************************************************)
(* build_target_image                                                      *)
(***************************************************************************)

build_target_image(registry, path, tag) ==
    LET final_name == ReplaceChar(registry \o <<"-">> \o path, "/", "-")
    IN  REGISTRY_BASE_URL \o <<"/">> \o final_name \o <<":">> \o tag

(***************************************************************************)
(* Image pipeline: docker_login / docker_pull / docker_tag / docker_push,  *)
(* fetch_images_from_url, replicate_image and main                         *)
(***************************************************************************)

\* Exit statuses a docker command can end with: success and one failure.
ExitCodes == {0, 1}

\* if result.returncode != 0: raise RuntimeError(...)   -- one per command
LoginFailed_Unchecked(rc) == FALSE

LoginFailed(rc) == rc # 0

PullFailed(rc) == rc # 0

TagFailed_Unchecked(rc) == FALSE

TagFailed(rc) == rc # 0

PushFailed(rc) == rc # 0

\* One subprocess.run, as recorded in cmds
Cmd(c, a, b, rc) == [cmd |-> c, a |-> a, b |-> b, rc |-> rc]

\* urlparse(url).netloc: the authority after "scheme://", up to the next "/".
\* (References with a ":" that is not followed by "//" are not among the inputs.)
UrlNetloc(url) ==
    LET k == FirstIndex(url, ":")
    IN  IF k > 0 /\ SubSeq(url, k + 1, k + 2) = <<"/", "/">>
        THEN Split(SubSeq(url, k + 3, Len(url)), "/")[1]
        ELSE <<>>

\* urlparse(url).path
UrlPath(url) ==
    LET k == FirstIndex(url, ":")
    IN  IF k > 0 /\ SubSeq(url, k + 1, k + 2) = <<"/", "/">>
        THEN LET rest == SubSeq(url, k + 3, Len(url))
                 j == FirstIndex(rest, "/")
             IN  IF j = 0 THEN <<>> ELSE SubSeq(rest, j, Len(rest))
        ELSE url

\* registry_host = parsed.netloc or parsed.path.split("/")[0]
RegistryHost(url) ==
    IF UrlNetloc(url) # <<>> THEN UrlNetloc(url) ELSE Split(UrlPath(url), "/")[1]

\* The loop body of fetch_images_from_url over the split lines
RECURSIVE KeepImageLines(_)
KeepImageLines(lines) ==
    IF Len(lines) = 0 THEN <<>>
    ELSE LET line == Strip(lines[1])
         IN  (IF line # <<>> /\ ~StartsWith(line, <<"#">>) THEN <<line>> ELSE <<>>)
             \o KeepImageLines(Tail(lines))

\* fetch_images_from_url, once response.raise_for_status() has passed
ImagesOfResponse(body) == KeepImageLines(Split(Strip(body), "\n"))

\* The target replicate_image computes for source_image
TargetOf(image) ==
    LET p == parse_image(image) IN build_target_image(p[1], p[2], p[3])

\* ---- inputs of a run ----

MaxArgs == 3

UrlArg == HttpsScheme \o <<"l">>
ImageArgs == { <<"a">>, <<"a", ".", "a", "/", "a", ":", "a">> }
ArgPool == ImageArgs \cup {UrlArg}

\* Bodies the list URL can answer with
ListBodies ==
    { <<>>,
      <<"#", "c", "\n", "\n">>,
      <<" ", "a", "\n", "\n", " ", "#", "c", "\n", "a", "/", "a", " ", "\n">> }

\* Values the environment can give the three settings (line 18-20)
EnvUsernames == { <<>>, <<"u">> }
EnvPasswords == { <<>>, <<"p">> }
EnvBaseUrls == { <<>>, <<"r", ".", "a">>, <<"r", ".", "a", "/", "n", "/">>,
                 HttpsScheme \o <<"r", ".", "a", "/", "n">> }

ArgLists == UNION { [1..n -> ArgPool] : n \in 0..MaxArgs }

ImageInit ==
    /\ REGISTRY_USERNAME \in EnvUsernames
    /\ REGISTRY_PASSWORD \in EnvPasswords
    /\ REGISTRY_BASE_URL \in { RStripChar(u, "/") : u \in EnvBaseUrls }
    /\ argv \in ArgLists
    /\ ipc = "validate"
    /\ argi = 1
    /\ images = <<>>
    /\ idx = 0
    /\ cmds = <<>>
    /\ logged = <<>>
    /\ exc = "none"

\* What the image pipeline never touches
OutsideImage == UNCHANGED <<locatorVars, rewriteVars, installerVars>>

\* main, line 170-174
Validate ==
    /\ ipc = "validate"
    /\ IF REGISTRY_USERNAME = <<>> \/ REGISTRY_PASSWORD = <<>>
          \/ REGISTRY_BASE_URL = <<>>
       THEN ipc' = "failed" /\ exc' = "ValueError"
       ELSE ipc' = "login" /\ exc' = exc
    /\ UNCHANGED <<REGISTRY_USERNAME, REGISTRY_PASSWORD, REGISTRY_BASE_URL,
                   argv, argi, images, idx, cmds, logged>>
    /\ OutsideImage

\* main, line 176-181, and docker_login
Login ==
    /\ ipc = "login"
    /\ \E rc \in ExitCodes :
          /\ cmds' = Append(cmds, Cmd("login", RegistryHost(REGISTRY_BASE_URL),
                                      REGISTRY_USERNAME, rc))
          /\ IF LoginFailed(rc)
             THEN ipc' = "failed" /\ exc' = "RuntimeError"
             ELSE ipc' = "args" /\ exc' = exc
    /\ UNCHANGED <<REGISTRY_USERNAME, REGISTRY_PASSWORD, REGISTRY_BASE_URL,
                   argv, argi, images, idx, logged>>
    /\ OutsideImage

\* main, line 185-191: one turn of the argument loop; a URL is fetched
ParseArgument ==
    /\ ipc = "args"
    /\ argi <= Len(argv)
    /\ IF StartsWith(argv[argi], HttpsScheme)
       THEN \/ \* requests.get or raise_for_status raises
               /\ ipc' = "failed" /\ exc' = "HTTPError"
               /\ UNCHANGED <<argi, images>>
            \/ \E body \in ListBodies :
                 /\ images' = images \o ImagesOfResponse(body)
                 /\ argi' = argi + 1
                 /\ UNCHANGED <<ipc, exc>>
       ELSE /\ images' = Append(images, argv[argi])
            /\ argi' = argi + 1
            /\ UNCHANGED <<ipc, exc>>
    /\ UNCHANGED <<REGISTRY_USERNAME, REGISTRY_PASSWORD, REGISTRY_BASE_URL,
                   argv, idx, cmds, logged>>
    /\ OutsideImage

\* main, line 193-199: the empty-batch test and the entry of the image loop
StartBatch ==
    /\ ipc = "args"
    /\ argi > Len(argv)
    /\ IF images = <<>>
       THEN ipc' = "failed" /\ exc' = "ValueError" /\ idx' = idx
       ELSE ipc' = "pull" /\ exc' = exc /\ idx' = 1
    /\ UNCHANGED <<REGISTRY_USERNAME, REGISTRY_PASSWORD, REGISTRY_BASE_URL,
                   argv, argi, images, cmds, logged>>
    /\ OutsideImage

\* main, line 202-204: except Exception: logger.error(...); raise
OnReplicateException_Continue ==
    /\ logged' = Append(logged, images[idx])
    /\ idx' = idx + 1
    /\ ipc' = IF idx < Len(images) THEN "pull" ELSE "done"
    /\ exc' = exc

OnReplicateException ==
    /\ logged' = Append(logged, images[idx])
    /\ ipc' = "failed"
    /\ exc' = "RuntimeError"
    /\ idx' = idx

\* replicate_image, line 158, and docker_pull
Pull ==
    /\ ipc = "pull"
    /\ \E rc \in ExitCodes :
          /\ cmds' = Append(cmds, Cmd("pull", images[idx], <<>>, rc))
          /\ IF PullFailed(rc)
             THEN OnReplicateException
             ELSE ipc' = "tag" /\ UNCHANGED <<idx, logged, exc>>
    /\ UNCHANGED <<REGISTRY_USERNAME, REGISTRY_PASSWORD, REGISTRY_BASE_URL,
                   argv, argi, images>>
    /\ OutsideImage

\* replicate_image, line 161, and docker_tag
Tag ==
    /\ ipc = "tag"
    /\ \E rc \in ExitCodes :
          /\ cmds' = Append(cmds, Cmd("tag", images[idx], TargetOf(images[idx]), rc))
          /\ IF TagFailed(rc)
             THEN OnReplicateException
             ELSE ipc' = "push" /\ UNCHANGED <<idx, logged, exc>>
    /\ UNCHANGED <<REGISTRY_USERNAME, REGISTRY_PASSWORD, REGISTRY_BASE_URL,
                   argv, argi, images>>
    /\ OutsideImage

\* replicate_image, line 164, docker_push, and the loop's next turn (line 199)
Push ==
    /\ ipc = "push"
    /\ \E rc \in ExitCodes :
          /\ cmds' = Append(cmds, Cmd("push", TargetOf(images[idx]), <<>>, rc))
          /\ IF PushFailed(rc)
             THEN OnReplicateException
             ELSE /\ idx' = idx + 1
                  /\ ipc' = IF idx < Len(images) THEN "pull" ELSE "done"
                  /\ UNCHANGED <<logged, exc>>
    /\ UNCHANGED <<REGISTRY_USERNAME, REGISTRY_PASSWORD, REGISTRY_BASE_URL,
                   argv, argi, images>>
    /\ OutsideImage

Next ==
    \/ Validate
    \/ Login
    \/ ParseArgument
    \/ StartBatch
    \/ Pull
    \/ Tag
    \/ Push

Init == ImageInit /\ LocatorIdle /\ RewriteIdle /\ InstallerIdle

Spec == Init /\ [][Next]_vars

(***************************************************************************)
(* Claims about the image pipeline (checked under Spec)                    *)
(***************************************************************************)

ImageCmds == {"pull", "tag", "push"}

RunEnded == ipc \in {"done", "failed"}

\* The positions of cmds holding a login
Logins == { j \in DOMAIN cmds : cmds[j].cmd = "login" }

\* C1: in main's loop, a pull, tag or push that exits non-zero is the last
\* command the run ever invokes (so no command is invoked for a later image),
\* the failing image is logged, and the run ends failed with the error
\* re-raised.
C1_FailFast ==
    \A j \in DOMAIN cmds :
        (cmds[j].cmd \in ImageCmds /\ cmds[j].rc # 0) =>
            /\ j = Len(cmds)
            /\ ipc = "failed"
            /\ exc = "RuntimeError"
            /\ logged = <<images[idx]>>

\* C1 witness: the tag of the third image of a five-image batch failed.
C1_Witness ==
    /\ Len(images) = 5
    /\ idx = 3
    /\ ipc = "failed"
    /\ cmds[Len(cmds)].cmd = "tag"
    /\ cmds[Len(cmds)].rc # 0

\* C2: after the login, the commands are, image by image, pull(source),
\* tag(source, target), push(target) in that order, and every command that
\* is followed by another one returned exit status 0.
C2_StepOrder ==
    \A j \in 2..Len(cmds) :
        LET k == ((j - 2) \div 3) + 1
            s == (j - 2) % 3
            src == images[k]
            p == parse_image(src)
            tgt == build_target_image(p[1], p[2], p[3])
        IN  /\ k \in DOMAIN images
            /\ s = 0 => cmds[j].cmd = "pull" /\ cmds[j].a = src
            /\ s = 1 => cmds[j].cmd = "tag" /\ cmds[j].a = src /\ cmds[j].b = tgt
            /\ s = 2 => cmds[j].cmd = "push" /\ cmds[j].a = tgt
            /\ j < Len(cmds) => cmds[j].rc = 0

\* C2 witness: the first image went through pull, tag, push and the pull of
\* the second image failed.
C2_Witness ==
    /\ Len(cmds) = 5
    /\ cmds[4].cmd = "push" /\ cmds[4].rc = 0
    /\ cmds[5].cmd = "pull" /\ cmds[5].rc # 0
    /\ ipc = "failed"

ConfigPresent ==
    REGISTRY_USERNAME # <<>> /\ REGISTRY_PASSWORD # <<>> /\ REGISTRY_BASE_URL # <<>>

MaxRefLen == 4
MaxPathLen == 3

\* Every string over `chars` of length at most n
StringsUpTo(chars, n) == UNION { [1..k -> chars] : k \in 0..n }

\* Arbitrary input: any string over a name character and the three
\* characters parse_image looks at
RefChars == {"a", ".", "/", ":"}
AnyRefs == StringsUpTo(RefChars, MaxRefLen)

\* References of the shape [host[:port]/]path[:tag]
NameSeparators == {"-", "_", "."}
ValidPath(p) ==
    \A i \in DOMAIN Split(p, "/") :
        LET seg == Split(p, "/")[i]
        IN  /\ seg # <<>>
            /\ seg[1] \notin NameSeparators
            /\ seg[Len(seg)] \notin NameSeparators
RefHosts == { <<"a", ".", "a">>, Localhost }
RefPorts == { <<>>, <<"5">> }
RefPaths == { p \in StringsUpTo({"a", "/", "-"}, MaxPathLen) : ValidPath(p) }
RefTags == { <<>>, <<"a">> }
WithTag(ref, tag) == IF tag = <<>> THEN ref ELSE ref \o <<":">> \o tag
WithPort(host, port) == IF port = <<>> THEN host ELSE host \o <<":">> \o port
ShapedRefs ==
    { WithTag(p, t) : p \in RefPaths, t \in RefTags }
    \cup { WithTag(WithPort(h, po) \o <<"/">> \o p, t) :
             h \in RefHosts, po \in RefPorts, p \in RefPaths, t \in RefTags }

BaseUrls == { <<"r", ".", "a">>, <<"r", ".", "a", "/", "n">> }

\* replicate_image, line 150-152, for source_image (and other_image, when a
\* second image of the batch is given)
ResolveLocators ==
    /\ parsed = Unset
    /\ parsed' = parse_image(source_image)
    /\ target_image' = TargetOf(source_image)
    /\ other_target' = IF other_image = Unset THEN Unset ELSE TargetOf(other_image)
    /\ UNCHANGED <<source_image, other_image, REGISTRY_BASE_URL>>
    /\ UNCHANGED <<imageVars, rewriteVars, installerVars>>

LocatorInit ==
    /\ source_image \in AnyRefs \cup ShapedRefs
    /\ other_image = Unset
    /\ parsed = Unset /\ target_image = Unset /\ other_target = Unset
    /\ REGISTRY_BASE_URL \in BaseUrls

PairInit ==
    /\ source_image \in ShapedRefs
    /\ other_image \in ShapedRefs
    /\ parsed = Unset /\ target_image = Unset /\ other_target = Unset
    /\ REGISTRY_BASE_URL \in BaseUrls

LocatorNext == ResolveLocators

\* parse_image / build_target_image on one arbitrary reference
LocatorSpecInit == LocatorInit /\ ImageIdle /\ RewriteIdle /\ InstallerIdle

SpecLocator == LocatorSpecInit /\ [][LocatorNext]_vars

\* ... on two references of one batch
PairSpecInit == PairInit /\ ImageIdle /\ RewriteIdle /\ InstallerIdle

SpecPair == PairSpecInit /\ [][LocatorNext]_vars

(***************************************************************************)
(* Claims about parse_image and build_target_image                         *)
(***************************************************************************)

Digits == {"0", "1", "2", "3", "4", "5", "6", "7", "8", "9"}

\* The first "/"-separated segment of a reference
FirstSegment(ref) == Split(ref, "/")[1]

\* ref is host[:port]/path[:tag] with a dotted host: the first segment is
\* followed by a path, its host part holds a "." (not at either end) and no
\* other punctuation, and its port, if any, is a non-empty run of digits.
HasExplicitDottedHost(ref) ==
    LET seg == FirstSegment(ref)
        hp == Split(seg, ":")
        host == hp[1]
        rest == SubSeq(ref, Len(seg) + 2, Len(ref))
    IN  /\ Len(Split(ref, "/")) >= 2
        /\ host # <<>> /\ HasChar(host, ".")
        /\ host[1] # "." /\ host[Len(host)] # "."
        /\ Len(hp) <= 2
        /\ Len(hp) = 2 => (hp[2] # <<>> /\ \A i \in DOMAIN hp[2] : hp[2][i] \in Digits)
        /\ Len(Split(rest, ":")) <= 2
        /\ ValidPath(Split(rest, ":")[1])
        /\ Len(Split(rest, ":")) = 2 => Split(rest, ":")[2] # <<>>

\* C6: for a reference with an explicit dotted registry host (with or
\* without a tag, with or without a port), parse_image returns that host as
\* the registry, never the implicit default docker.io.
C6_ExplicitHostIsRegistry ==
    (parsed # Unset /\ HasExplicitDottedHost(source_image)) =>
        (parsed[1] = FirstSegment(source_image) /\ parsed[1] # DockerIo)

\* The "/"-separated segments of s are all non-empty
NoEmptySegment(s) == \A i \in DOMAIN Split(s, "/") : Split(s, "/")[i] # <<>>

\* C7 as stated: for every input string the registry is non-empty and the
\* path neither starts nor ends with "/".
C7_WellFormedForAnyString ==
    parsed # Unset =>
        /\ parsed[1] # <<>>
        /\ parsed[2] # <<>> => (parsed[2][1] # "/" /\ parsed[2][Len(parsed[2])] # "/")

\* C7 amended: for every input string the registry is non-empty; the path
\* neither starts nor ends with "/" when the part of the reference before
\* its last ":" has no empty "/"-separated segment.
C7_WellFormed ==
    parsed # Unset =>
        /\ parsed[1] # <<>>
        /\ NoEmptySegment(ImagePart(source_image)) =>
              /\ parsed[2] # <<>>
              /\ parsed[2][1] # "/"
              /\ parsed[2][Len(parsed[2])] # "/"

\* C7 witness: a reference with a registry and a two-segment path was parsed.
C7_Witness ==
    /\ source_image = <<"a", ".", "a", "/", "a", "/", "a">>
    /\ parsed = << <<"a", ".", "a">>, <<"a", "/", "a">>, Latest >>

\* C9: two images of a batch with distinct identities (registry, path, tag)
\* get distinct target references.
C9_TargetsDistinct ==
    (parsed # Unset /\ other_image # Unset
        /\ parse_image(source_image) # parse_image(other_image)) =>
        target_image # other_target

(***************************************************************************)
(* str.replace, as main() applies it to install.sh and install.ps1         *)
(* (replicate-claude-code.py line 106 and 116).  Every character of the    *)
(* result carries whether it was inserted (part of a copy of `new`) or     *)
(* carried over from the input.                                            *)
(***************************************************************************)

Marked(s, inserted) == [i \in DOMAIN s |-> [c |-> s[i], ins |-> inserted]]

Unmarked(m) == [i \in DOMAIN m |-> m[i].c]

\* t.replace(old, new, 1), for a non-empty old
RECURSIVE ReplaceMarked_FirstOnly(_, _, _)
ReplaceMarked_FirstOnly(t, old, new) ==
    IF Len(t) < Len(old) THEN Marked(t, FALSE)
    ELSE IF SubSeq(t, 1, Len(old)) = old
         THEN Marked(new, TRUE) \o Marked(SubSeq(t, Len(old) + 1, Len(t)), FALSE)
         ELSE Marked(<<t[1]>>, FALSE) \o ReplaceMarked_FirstOnly(Tail(t), old, new)

\* t.replace(old, new), for a non-empty old: left to right, non-overlapping
RECURSIVE ReplaceScan(_, _, _)
ReplaceScan(t, old, new) ==
    IF Len(t) < Len(old) THEN Marked(t, FALSE)
    ELSE IF SubSeq(t, 1, Len(old)) = old
         THEN Marked(new, TRUE)
              \o ReplaceScan(SubSeq(t, Len(old) + 1, Len(t)), old, new)
         ELSE Marked(<<t[1]>>, FALSE) \o ReplaceScan(Tail(t), old, new)

ReplaceMarked(t, old, new) == ReplaceScan(t, old, new)

str_replace(t, old, new) == Unmarked(ReplaceMarked(t, old, new))

MaxTextLen == 4
MaxOriginLen == 2
MaxDestLen == 2

TextChars == {"a", "b"}

\* An origin of the shape extract_src_base_url returns, and texts around it
SampleOrigin == HttpsScheme \o <<"o">>
SampleTexts ==
    { <<"U", "=", "\"">> \o SampleOrigin \o <<"\"", "\n">>,
      <<"h", "t", "t", "p">> \o SampleOrigin,
      SampleOrigin \o <<" ">> \o SampleOrigin }
SampleDestinations == { HttpsScheme \o <<"d">>, <<"s", ":", "/", "/", "o">> }

RewriteInit ==
    /\ text \in StringsUpTo(TextChars, MaxTextLen) \cup SampleTexts
    /\ origin \in (StringsUpTo(TextChars, MaxOriginLen) \ {<<>>}) \cup {SampleOrigin}
    /\ destination \in (StringsUpTo(TextChars, MaxDestLen) \ {<<>>})
                         \cup SampleDestinations
    /\ rewritten = UnsetMarked

\* main, line 106 / 116
Rewrite ==
    /\ rewritten = UnsetMarked
    /\ rewritten' = ReplaceMarked(text, origin, destination)
    /\ UNCHANGED <<text, origin, destination>>
    /\ UNCHANGED <<imageVars, REGISTRY_BASE_URL, locatorVars, installerVars>>

RewriteNext == Rewrite

RewriteSpecInit ==
    /\ RewriteInit /\ ImageIdle /\ LocatorIdle /\ InstallerIdle
    /\ REGISTRY_BASE_URL = Unset

SpecRewrite == RewriteSpecInit /\ [][RewriteNext]_vars

(***************************************************************************)
(* Claims about the rewriting                                              *)
(***************************************************************************)

\* The positions of s at which an occurrence of sub starts
Occurrences(sub, s) ==
    { i \in 1..Len(s) :
        i + Len(sub) - 1 <= Len(s) /\ SubSeq(s, i, i + Len(sub) - 1) = sub }

Chars(s) == { s[i] : i \in DOMAIN s }

\* C8 as stated: when destination does not contain origin, the rewritten
\* text contains zero occurrences of origin.
C8_NoOriginLeft ==
    (rewritten # UnsetMarked /\ ~IsSubstring(origin, destination)) =>
        Occurrences(origin, Unmarked(rewritten)) = {}

\* C8 amended: every occurrence of origin in the rewritten text overlaps an
\* inserted copy of destination (no occurrence of the input survives), and
\* when origin and destination have no character in common the rewritten
\* text contains zero occurrences of origin.
C8_NoOriginSurvives ==
    rewritten # UnsetMarked =>
        /\ \A i \in Occurrences(origin, Unmarked(rewritten)) :
              \E j \in i..(i + Len(origin) - 1) : rewritten[j].ins
        /\ Chars(origin) \cap Chars(destination) = {} =>
              Occurrences(origin, Unmarked(rewritten)) = {}

\* C8 witness: a text with two occurrences of origin was rewritten and no
\* occurrence is left.
C8_Witness ==
    /\ rewritten # UnsetMarked
    /\ Cardinality(Occurrences(origin, text)) = 2
    /\ ~IsSubstring(origin, destination)
    /\ Unmarked(rewritten) = HttpsScheme \o <<"d", " ">> \o HttpsScheme \o <<"d">>

(***************************************************************************)
(* Installer pipeline: replicate-claude-code.py                            *)
(***************************************************************************)

\* String literals of replicate-claude-code.py
InstallShUrl == <<"h", "t", "t", "p", "s", ":", "/", "/", "c", "l", "a", "u", "d", "e", ".", "a", "i", "/", "i", "n", "s", "t", "a", "l", "l", ".", "s", "h">>
InstallPs1Url == <<"h", "t", "t", "p", "s", ":", "/", "/", "c", "l", "a", "u", "d", "e", ".", "a", "i", "/", "i", "n", "s", "t", "a", "l", "l", ".", "p", "s", "1">>
InstallShKey == <<"i", "n", "s", "t", "a", "l", "l", ".", "s", "h">>
InstallPs1Key == <<"i", "n", "s", "t", "a", "l", "l", ".", "p", "s", "1">>
StableKey == <<"s", "t", "a", "b", "l", "e">>
ManifestName == <<"m", "a", "n", "i", "f", "e", "s", "t", ".", "j", "s", "o", "n">>
ClaudeExe == <<"c", "l", "a", "u", "d", "e", ".", "e", "x", "e">>
Claude == <<"c", "l", "a", "u", "d", "e">>
Win == <<"w", "i", "n">>

\* The characters the class [^\s"'\n\r] of extract_src_base_url accepts
IsUrlChar(c) == c \notin Whitespace \cup {"\"", "'"}

\* re.findall(r'https://[^\s"\'\n\r]+', t): where the first match starts,
\* 0 when there is none
FirstUrlStart(t) ==
    LET starts == { i \in DOMAIN t :
                      /\ i + 8 <= Len(t)
                      /\ SubSeq(t, i, i + 7) = HttpsScheme
                      /\ IsUrlChar(t[i + 8]) }
    IN  IF starts = {} THEN 0
        ELSE CHOOSE i \in starts : \A j \in starts : i <= j

\* ... and where that (greedy) match ends
FirstUrlEnd(t) ==
    LET i == FirstUrlStart(t)
    IN  CHOOSE e \in (i + 8)..Len(t) :
            /\ \A k \in (i + 8)..e : IsUrlChar(t[k])
            /\ e = Len(t) \/ ~IsUrlChar(t[e + 1])

\* extract_src_base_url raises ValueError("No HTTPS URL found in install.sh")
NoUrlFound(t) == FirstUrlStart(t) = 0

\* extract_src_base_url: matches[0].rstrip('"').rstrip("'")
extract_src_base_url(t) ==
    RStripChar(RStripChar(SubSeq(t, FirstUrlStart(t), FirstUrlEnd(t)), "\""), "'")

\* main, line 112: if src_base_url not in install_ps1: raise ValueError
OriginMissing_Unchecked(base, ps1) == FALSE

OriginMissing(base, ps1) == ~IsSubstring(base, ps1)

\* main, line 135
binary_name_Contains(platform) ==
    IF IsSubstring(Win, platform) THEN ClaudeExe ELSE Claude

binary_name(platform) ==
    IF StartsWith(platform, Win) THEN ClaudeExe ELSE Claude

\* simple_upload_content / simple_download_and_upload: the object key
ObjectKey(key) ==
    IF COS_PATH_PREFIX # <<>> THEN COS_PATH_PREFIX \o <<"/">> \o key ELSE key

\* main, line 96-98
dst_base_url ==
    IF COS_PATH_PREFIX # <<>>
    THEN RStripChar(COS_PUBLIC_URL, "/") \o <<"/">> \o COS_PATH_PREFIX
    ELSE RStripChar(COS_PUBLIC_URL, "/")

\* f"{src_base_url}/stable"
StableUrl == src_base_url \o <<"/">> \o StableKey

\* f"{version}/manifest.json"
ManifestKey == version \o <<"/">> \o ManifestName

\* f"{src_base_url}/{version}/manifest.json"
ManifestUrl == src_base_url \o <<"/">> \o ManifestKey

\* main, line 137: dst_key
BinaryKey(platform) ==
    version \o <<"/">> \o platform \o <<"/">> \o binary_name(platform)

\* main, line 136: src_url
BinaryUrl(platform) == src_base_url \o <<"/">> \o BinaryKey(platform)

\* simple_download_and_upload, line 84-85: the finally clause runs
\* os.unlink(local_path) whether or not an exception is pending
UnlinkRuns_OnSuccessOnly(pendingExc) == pendingExc = "none"

UnlinkRuns(pendingExc) == TRUE

\* ---- inputs of a run ----

MaxPlatforms == 2
MaxChunks == 2

\* What the environment can hold (line 21-26)
EnvSecrets == { <<>>, <<"k">> }
EnvPublicUrls == { <<>>, HttpsScheme \o <<"m">>, HttpsScheme \o <<"m", "/">> }
EnvPathPrefixes == { <<"c", "c">>, <<>>, <<"/", "p", "/">> }

\* Bodies https://claude.ai/install.sh can answer with
ShBodies ==
    { <<"U", "=", "\"", "h", "t", "t", "p", "s", ":", "/", "/", "o", "\"", "\n">>,
      <<"e", "c", "h", "o">>,
      <<"h", "t", "t", "p", "s", ":", "/", "/", " ", "x">>,
      <<"'", "h", "t", "t", "p", "s", ":", "/", "/", "o", "/", "b", "'", " ", "h", "t", "t", "p", "s", ":", "/", "/", "z">> }

\* Bodies https://claude.ai/install.ps1 can answer with
Ps1Bodies ==
    { <<"$", "u", "=", "'", "h", "t", "t", "p", "s", ":", "/", "/", "o", "'">>,
      <<"$", "u", "=", "\"", "h", "t", "t", "p", "s", ":", "/", "/", "o", "/", "b", "\"", ";", "h", "t", "t", "p", "s", ":", "/", "/", "o">>,
      <<"$", "u", "=", "'", "h", "t", "t", "p", "s", ":", "/", "/", "q", "'">> }

\* Bodies {origin}/stable can answer with
StableBodies == { <<"1", "\n">>, <<" ", "2">> }

\* Platform names of a manifest
PlatformNames == { <<"w", "i", "n", "3", "2">>, <<"d", "a", "r", "w", "i", "n">>, <<"l", "i", "n", "u", "x">> }

\* list(manifest_json["platforms"].keys()): the keys of a JSON object are
\* distinct, in document order
PlatformLists ==
    { l \in UNION { [1..n -> PlatformNames] : n \in 0..MaxPlatforms } :
        \A i, j \in DOMAIN l : i # j => l[i] # l[j] }

InstallerInit ==
    /\ COS_BUCKET \in EnvSecrets
    /\ COS_SECRET_ID \in EnvSecrets
    /\ COS_SECRET_KEY \in EnvSecrets
    /\ COS_PUBLIC_URL \in { RStripChar(u, "/") : u \in EnvPublicUrls }
    /\ COS_PATH_PREFIX \in { RStripChar(LStripChar(p, "/"), "/") : p \in EnvPathPrefixes }
    /\ pc = "validate"
    /\ install_sh = Unset /\ src_base_url = Unset /\ install_ps1 = Unset
    /\ version = Unset /\ platforms = <<>> /\ pidx = 0
    /\ ops = <<>> /\ published = <<>> /\ transfers = <<>> /\ failedAt = 0
    /\ iexc = "none" /\ dlpc = "idle" /\ tmpFiles = {} /\ tmpCount = 0
    /\ chunks = 0 /\ pending = "none"

envVars == <<COS_BUCKET, COS_SECRET_ID, COS_SECRET_KEY, COS_PUBLIC_URL,
             COS_PATH_PREFIX>>
dlVars == <<dlpc, tmpFiles, tmpCount, chunks, pending>>

Get(url) == [op |-> "get", what |-> url]
Put(key) == [op |-> "put", what |-> key]

\* An uncaught exception ends main
Raise(e) ==
    /\ pc' = "failed"
    /\ iexc' = e
    /\ failedAt' = Len(ops')

\* What the installer pipeline never touches
OutsideInstaller ==
    UNCHANGED <<imageVars, REGISTRY_BASE_URL, locatorVars, rewriteVars>>

\* main, line 90-93
IValidate ==
    /\ pc = "validate"
    /\ IF COS_BUCKET = <<>> \/ COS_SECRET_ID = <<>> \/ COS_SECRET_KEY = <<>>
          \/ COS_PUBLIC_URL = <<>>
       THEN pc' = "failed" /\ iexc' = "ValueError"
       ELSE pc' = "get_sh" /\ iexc' = iexc
    /\ UNCHANGED <<envVars, dlVars, install_sh, src_base_url, install_ps1,
                   version, platforms, pidx, ops, published, transfers, failedAt>>
    /\ OutsideInstaller

\* main, line 101-102: simple_get and extract_src_base_url
GetInstallSh ==
    /\ pc = "get_sh"
    /\ ops' = Append(ops, Get(InstallShUrl))
    /\ \/ /\ Raise("HTTPError")
          /\ UNCHANGED <<install_sh, src_base_url>>
       \/ \E body \in ShBodies :
            /\ install_sh' = body
            /\ IF NoUrlFound(body)
               THEN Raise("ValueError") /\ UNCHANGED src_base_url
               ELSE /\ src_base_url' = extract_src_base_url(body)
                    /\ pc' = "put_sh"
                    /\ UNCHANGED <<iexc, failedAt>>
    /\ UNCHANGED <<envVars, dlVars, install_ps1, version, platforms, pidx,
                   published, transfers>>
    /\ OutsideInstaller

\* simple_upload_content(content, key) called from main at position `at`
UploadContent(at, key, body, next) ==
    /\ pc = at
    /\ ops' = Append(ops, Put(key))
    /\ \/ Raise("CosError") /\ UNCHANGED published
       \/ /\ published' = Append(published, [key |-> ObjectKey(key), body |-> body])
          /\ pc' = next
          /\ UNCHANGED <<iexc, failedAt>>

\* main, line 106-107
PutInstallSh ==
    /\ UploadContent("put_sh", InstallShKey,
                     str_replace(install_sh, src_base_url, dst_base_url), "get_ps1")
    /\ UNCHANGED <<envVars, dlVars, install_sh, src_base_url, install_ps1,
                   version, platforms, pidx, transfers>>
    /\ OutsideInstaller

\* main, line 111-113
GetInstallPs1 ==
    /\ pc = "get_ps1"
    /\ ops' = Append(ops, Get(InstallPs1Url))
    /\ \/ /\ Raise("HTTPError")
          /\ UNCHANGED install_ps1
       \/ \E body \in Ps1Bodies :
            /\ install_ps1' = body
            /\ IF OriginMissing(src_base_url, body)
               THEN Raise("ValueError")
               ELSE pc' = "put_ps1" /\ UNCHANGED <<iexc, failedAt>>
    /\ UNCHANGED <<envVars, dlVars, install_sh, src_base_url, version, platforms,
                   pidx, published, transfers>>
    /\ OutsideInstaller

\* main, line 116-117
PutInstallPs1 ==
    /\ UploadContent("put_ps1", InstallPs1Key,
                     str_replace(install_ps1, src_base_url, dst_base_url), "get_stable")
    /\ UNCHANGED <<envVars, dlVars, install_sh, src_base_url, install_ps1,
                   version, platforms, pidx, transfers>>
    /\ OutsideInstaller

\* main, line 121-122; the raw body is kept in `version` until it is stored
GetStable ==
    /\ pc = "get_stable"
    /\ ops' = Append(ops, Get(StableUrl))
    /\ \/ /\ Raise("HTTPError")
          /\ UNCHANGED version
       \/ \E body \in StableBodies :
            /\ version' = Strip(body)
            /\ pc' = "put_stable"
            /\ UNCHANGED <<iexc, failedAt>>
    /\ UNCHANGED <<envVars, dlVars, install_sh, src_base_url, install_ps1,
                   platforms, pidx, published, transfers>>
    /\ OutsideInstaller

\* main, line 123: the raw bytes fetched from StableUrl
PutStable ==
    /\ UploadContent("put_stable", StableKey, <<"raw", StableUrl>>, "get_manifest")
    /\ UNCHANGED <<envVars, dlVars, install_sh, src_base_url, install_ps1,
                   version, platforms, pidx, transfers>>
    /\ OutsideInstaller

\* main, line 127-129: simple_get, json.loads and ["platforms"].keys()
GetManifest ==
    /\ pc = "get_manifest"
    /\ ops' = Append(ops, Get(ManifestUrl))
    /\ \/ /\ \E e \in {"HTTPError", "JSONDecodeError", "KeyError"} : Raise(e)
          /\ UNCHANGED platforms
       \/ \E keys \in PlatformLists :
            /\ platforms' = keys
            /\ pc' = "put_manifest"
            /\ UNCHANGED <<iexc, failedAt>>
    /\ UNCHANGED <<envVars, dlVars, install_sh, src_base_url, install_ps1,
                   version, pidx, published, transfers>>
    /\ OutsideInstaller

\* main, line 130, and the entry of the platform loop (line 134)
PutManifest ==
    /\ UploadContent("put_manifest", ManifestKey, <<"raw", ManifestUrl>>,
                     IF platforms = <<>> THEN "done" ELSE "binary")
    /\ pidx' = 1
    /\ UNCHANGED <<envVars, dlVars, install_sh, src_base_url, install_ps1,
                   version, platforms, transfers>>
    /\ OutsideInstaller

mainVars == <<envVars, pc, install_sh, src_base_url, install_ps1, version,
              platforms, pidx, iexc, failedAt>>

\* simple_download_and_upload, line 69-70: the temporary file is created
DlOpen ==
    /\ pc = "binary" /\ dlpc = "idle"
    /\ tmpCount' = tmpCount + 1
    /\ tmpFiles' = tmpFiles \cup {tmpCount + 1}
    /\ dlpc' = "get"
    /\ pending' = "none"
    /\ UNCHANGED <<mainVars, chunks, ops, published, transfers>>
    /\ OutsideInstaller

\* An exception inside the try block: control goes to the finally clause
DlRaise(e) == dlpc' = "finally" /\ pending' = e

\* line 72: requests.get(url, stream=True)
DlGet ==
    /\ dlpc = "get"
    /\ ops' = Append(ops, Get(BinaryUrl(platforms[pidx])))
    /\ \/ DlRaise("ConnectionError")
       \/ dlpc' = "status" /\ UNCHANGED pending
    /\ UNCHANGED <<mainVars, tmpFiles, tmpCount, chunks, published, transfers>>
    /\ OutsideInstaller

\* line 73: res.raise_for_status()
DlStatus ==
    /\ dlpc = "status"
    /\ \/ DlRaise("HTTPError") /\ UNCHANGED chunks
       \/ \E n \in 0..MaxChunks :
            chunks' = n /\ dlpc' = "write" /\ UNCHANGED pending
    /\ UNCHANGED <<mainVars, tmpFiles, tmpCount, ops, published, transfers>>
    /\ OutsideInstaller

\* line 74-75: one chunk is read and written
DlChunk ==
    /\ dlpc = "write" /\ chunks > 0
    /\ \/ DlRaise("OSError") /\ UNCHANGED chunks
       \/ chunks' = chunks - 1 /\ UNCHANGED <<dlpc, pending>>
    /\ UNCHANGED <<mainVars, tmpFiles, tmpCount, ops, published, transfers>>
    /\ OutsideInstaller

\* line 76: tmp_file.flush()
DlFlush ==
    /\ dlpc = "write" /\ chunks = 0
    /\ \/ DlRaise("OSError")
       \/ dlpc' = "upload" /\ UNCHANGED pending
    /\ UNCHANGED <<mainVars, tmpFiles, tmpCount, chunks, ops, published, transfers>>
    /\ OutsideInstaller

\* line 78-83: client.upload_file(COS_BUCKET, key, local_path, ...)
DlUpload ==
    /\ dlpc = "upload"
    /\ ops' = Append(ops, Put(BinaryKey(platforms[pidx])))
    /\ \/ DlRaise("CosError") /\ UNCHANGED published
       \/ /\ published' = Append(published,
                 [key |-> ObjectKey(BinaryKey(platforms[pidx])),
                  body |-> <<"raw", BinaryUrl(platforms[pidx])>>])
          /\ dlpc' = "finally"
          /\ UNCHANGED pending
    /\ UNCHANGED <<mainVars, tmpFiles, tmpCount, chunks, transfers>>
    /\ OutsideInstaller

\* line 84-85: finally: os.unlink(local_path); then the call returns, or the
\* pending exception leaves it and ends main (line 139-140, 134)
DlFinally ==
    /\ dlpc = "finally"
    /\ tmpFiles' = IF UnlinkRuns(pending) THEN tmpFiles \ {tmpCount} ELSE tmpFiles
    /\ dlpc' = "idle"
    /\ IF pending = "none"
       THEN /\ transfers' = Append(transfers,
                   [url |-> BinaryUrl(platforms[pidx]),
                    key |-> BinaryKey(platforms[pidx])])
            /\ pidx' = pidx + 1
            /\ pc' = IF pidx < Len(platforms) THEN "binary" ELSE "done"
            /\ UNCHANGED <<iexc, failedAt>>
       ELSE /\ pc' = "failed" /\ iexc' = pending /\ failedAt' = Len(ops)
            /\ UNCHANGED <<transfers, pidx>>
    /\ UNCHANGED <<envVars, install_sh, src_base_url, install_ps1, version,
                   platforms, tmpCount, chunks, pending, ops, published>>
    /\ OutsideInstaller

InstallerNext ==
    \/ IValidate
    \/ GetInstallSh
    \/ PutInstallSh
    \/ GetInstallPs1
    \/ PutInstallPs1
    \/ GetStable
    \/ PutStable
    \/ GetManifest
    \/ PutManifest
    \/ DlOpen
    \/ DlGet
    \/ DlStatus
    \/ DlChunk
    \/ DlFlush
    \/ DlUpload
    \/ DlFinally

InstallerSpecInit ==
    /\ InstallerInit /\ ImageIdle /\ LocatorIdle /\ RewriteIdle
    /\ REGISTRY_BASE_URL = Unset

SpecInstaller == InstallerSpecInit
    /\ [][InstallerNext]_vars

(***************************************************************************)
(* Claims about the installer pipeline (checked under SpecInstaller)       *)
(***************************************************************************)

\* a/b
Slashed(a, b) == a \o <<"/">> \o b

\* claude.exe for a platform whose first three characters are w, i, n
ExpectedBinary(p) ==
    IF Len(p) >= 3 /\ p[1] = "w" /\ p[2] = "i" /\ p[3] = "n"
    THEN <<"c", "l", "a", "u", "d", "e", ".", "e", "x", "e">>
    ELSE <<"c", "l", "a", "u", "d", "e">>

\* The relative key of the j-th artifact of the fixed order: install.sh,
\* install.ps1, stable, {version}/manifest.json, then the platform binaries
ExpectedArtifact(j) ==
    IF j = 1 THEN <<"i", "n", "s", "t", "a", "l", "l", ".", "s", "h">>
    ELSE IF j = 2 THEN <<"i", "n", "s", "t", "a", "l", "l", ".", "p", "s", "1">>
    ELSE IF j = 3 THEN <<"s", "t", "a", "b", "l", "e">>
    ELSE IF j = 4 THEN Slashed(version, <<"m", "a", "n", "i", "f", "e", "s", "t", ".", "j", "s", "o", "n">>)
    ELSE Slashed(version, Slashed(platforms[j - 4], ExpectedBinary(platforms[j - 4])))

\* Where the j-th artifact is fetched from
ExpectedSource(j) ==
    IF j = 1 THEN <<"h", "t", "t", "p", "s", ":", "/", "/", "c", "l", "a", "u", "d", "e", ".", "a", "i", "/", "i", "n", "s", "t", "a", "l", "l", ".", "s", "h">>
    ELSE IF j = 2 THEN <<"h", "t", "t", "p", "s", ":", "/", "/", "c", "l", "a", "u", "d", "e", ".", "a", "i", "/", "i", "n", "s", "t", "a", "l", "l", ".", "p", "s", "1">>
    ELSE Slashed(src_base_url, ExpectedArtifact(j))

\* The puts among the operations attempted so far
Puts == { j \in DOMAIN ops : ops[j].op = "put" }

\* C4: the operations of a run are, artifact by artifact in the fixed order,
\* one fetch then one upload (nothing is fetched or uploaded twice); the
\* published objects are a prefix of that order; and once a step has failed
\* (no URL in install.sh, origin absent from install.ps1, a failed fetch or
\* upload) the run has ended failed with no operation after the failure.
C4_FixedOrderFailFast ==
    /\ \A j \in DOMAIN ops :
          LET a == (j + 1) \div 2
          IN  /\ a <= 4 + Len(platforms)
              /\ ops[j] = IF j % 2 = 1
                          THEN [op |-> "get", what |-> ExpectedSource(a)]
                          ELSE [op |-> "put", what |-> ExpectedArtifact(a)]
    /\ \A i \in DOMAIN published :
          /\ i <= 4 + Len(platforms)
          /\ published[i].key = ObjectKey(ExpectedArtifact(i))
    /\ Len(published) <= Cardinality(Puts)
    /\ Len(published) < Cardinality(Puts) =>
          /\ Len(published) = Cardinality(Puts) - 1
          /\ Len(ops) \in Puts
          /\ pc = "failed" \/ (dlpc = "finally" /\ pending # "none")
    /\ failedAt # 0 => (pc = "failed" /\ Len(ops) = failedAt)
    /\ pc = "failed" => (iexc # "none" /\ failedAt = Len(ops) /\ dlpc = "idle")
    /\ (install_sh # Unset /\ FirstUrlStart(install_sh) = 0) =>
          (pc = "failed" /\ Len(ops) = 1 /\ published = <<>>)
    /\ (install_ps1 # Unset /\ ~IsSubstring(src_base_url, install_ps1)) =>
          (pc = "failed" /\ Len(ops) = 3 /\ Len(published) = 1)

\* C4 witness: the fetch of the second platform binary failed after the
\* first five artifacts were published, and the run ended there.
C4_Witness ==
    /\ pc = "failed"
    /\ Len(platforms) = 2
    /\ Len(published) = 5
    /\ Len(ops) = 11
    /\ iexc \in {"ConnectionError", "HTTPError"}

\* C5: whenever no call of simple_download_and_upload is in progress, no
\* temporary file exists: each call has removed the file it created, however
\* it ended.
C5_TempFileRemoved ==
    /\ dlpc = "idle" => tmpFiles = {}
    /\ tmpFiles \subseteq {tmpCount}

\* C5 witness: a second call created its file, its upload raised, the call
\* ended with that exception and the file is gone.
C5_Witness ==
    /\ tmpCount = 2
    /\ dlpc = "idle"
    /\ pending = "CosError"
    /\ pc = "failed"
    /\ tmpFiles = {}

\* C10: the binaries transferred are, in the order of the manifest's
\* platforms, one per platform: from {origin}/{version}/{p}/{binary} to the
\* key {version}/{p}/{binary}, binary being claude.exe for a platform that
\* begins with "win" and claude otherwise; a successful run has transferred
\* one for every platform.
C10_OneBinaryPerPlatform ==
    /\ Len(transfers) <= Len(platforms)
    /\ \A k \in DOMAIN transfers :
          LET p == platforms[k]
              key == Slashed(version, Slashed(p, ExpectedBinary(p)))
          IN  /\ transfers[k] = [url |-> Slashed(src_base_url, key), key |-> key]
              /\ published[4 + k].key = ObjectKey(key)
    /\ pc = "done" =>
          /\ Len(transfers) = Len(platforms)
          /\ Len(published) = 4 + Len(platforms)

\* C10 witness: a run over the platforms darwin and win32 of version 1
\* succeeded.
C10_Witness ==
    /\ pc = "done"
    /\ version = <<"1">>
    /\ platforms = << <<"d", "a", "r", "w", "i", "n">>, <<"w", "i", "n", "3", "2">> >>
    /\ Len(transfers) = 2

====
